---- MODULE Spec2Model ----
(***************************************************************************)
(* HLS stream output of homeassistant/components/stream/hls.py:            *)
(* HlsStreamOutput (the bounded segment buffer, its asyncio.Event and the  *)
(* shared cursor), the recv coroutine and HlsSegmentView.handle.           *)
(*                                                                         *)
(* Everything runs on one asyncio event loop.  A callback or a coroutine   *)
(* step between two awaits is atomic; the only suspension point modelled   *)
(* here is `await self._event.wait()` in recv.  Event.set() resolves the   *)
(* futures of the tasks waiting at that moment; each such task resumes in  *)
(* a later loop iteration, after any callbacks already queued ahead of it. *)
(***************************************************************************)
EXTENDS Integers, Sequences, FiniteSets, TLC

\* ---------------------------------------------------------------- bounds

\* Largest sequence number the producer hands out.
MaxSeq == 3

\* ------------------------------------------------------------- constants

\* Capacity of the deque: const.MAX_SEGMENTS, imported at hls.py:11.  Its
\* value is set outside hls.py; the buffer is explored for this capacity.
MAX_SEGMENTS == 3

\* Window of the media playlist: const.NUM_PLAYLIST_SEGMENTS, imported at
\* hls.py:11; set outside hls.py, at most the capacity.
NUM_PLAYLIST_SEGMENTS == 2

\* Durations are counted in tenths of a second.
DurUnit == 10

\* Segment durations the producer hands out: 0.4 s and 2.5 s.
Durations == {4, 25}

\* Tasks that call recv or request a segment.
Consumers == {"c1", "c2"}

\* Python's None for self._cursor (sequence numbers are >= 0).
None == -1

\* ghost values of wokenBy: not woken; woken by cleanup()'s set().
NotWoken == None
CleanupWake == None - 1

\* Byte length of the payload the producer builds for sequence number s
\* (segment.segment.seek(0, io.SEEK_END)); different for every segment.
PayloadLen(s) == 750000 + s

\* core.Segment: sequence, duration and the payload, known by its length.
Segment ==
    {[sequence |-> s, duration |-> d, size |-> PayloadLen(s)] :
        s \in 0..MaxSeq, d \in Durations}

VARIABLES
    _segments,   \* self._segments: deque(maxlen=MAX_SEGMENTS) of Segment
    _cursor,     \* self._cursor: None or a sequence number
    _event,      \* self._event: the asyncio.Event's flag
    pc,          \* per consumer: "idle", "waiting", "woken", "done"
    result,      \* per consumer: what its last call returned; a Segment is
                 \*   named by its sequence number, unique in the stream
    history,     \* ghost: every sequence number appended so far, in order
    torn,        \* ghost: cleanup() has run
    revived,     \* ghost: an append has run after the last cleanup()
    wokenBy,     \* ghost, per consumer: sequence whose append resolved its wait
    issued,      \* ghost, per consumer: the buffer's life when recv was called:
                 \*   "new" (no append, no cleanup yet), "live", "torn"
    during,      \* ghost, per consumer: what the producer did while its recv
                 \*   was in progress: "none", "appends", "cleanup"
    lastRecv,    \* ghost, per consumer: sequence of the segment its latest
                 \*   recv that returned one handed out, None before that
    tracking     \* ghost: lastRecv is being recorded (TrackSpec only)

vars == <<_segments, _cursor, _event, pc, result,
          history, torn, revived, wokenBy, issued, during, lastRecv, tracking>>

\* ---------------------------------------------------------- pure helpers

Min(a, b) == IF a <= b THEN a ELSE b

MaxOf(S) == CHOOSE x \in S : \A y \in S : y <= x

\* collections.deque(maxlen=MAX_SEGMENTS).append: drop from the left when full.
DequeAppend_unbounded(dq, x) == Append(dq, x)

DequeAppend_left(dq, x) ==
    IF Len(dq) >= MAX_SEGMENTS
    THEN <<x>> \o SubSeq(dq, 1, MAX_SEGMENTS - 1)
    ELSE <<x>> \o dq

DequeAppend_dropnewest(dq, x) ==
    IF Len(dq) >= MAX_SEGMENTS
    THEN Append(SubSeq(dq, 1, MAX_SEGMENTS - 1), x)
    ELSE Append(dq, x)

DequeAppend(dq, x) ==
    IF Len(dq) >= MAX_SEGMENTS
    THEN Append(SubSeq(dq, Len(dq) - MAX_SEGMENTS + 2, Len(dq)), x)
    ELSE Append(dq, x)

\* HlsStreamOutput.segments: [s.sequence for s in self._segments]
segments(dq) == [i \in 1..Len(dq) |-> dq[i].sequence]

SeqSet(dq) == {dq[i].sequence : i \in 1..Len(dq)}

\* max(self.segments, default=0)
last_segment(dq) == IF Len(dq) = 0 THEN 0 ELSE MaxOf(SeqSet(dq))

\* get_segment()[-1]: the right end of the deque.
NewestSegment_oldest(dq) == dq[1]

NewestSegment(dq) == dq[Len(dq)]

\* HlsStreamOutput.get_segment(sequence): the whole deque when `not sequence`
\* (None and 0 alike), else the first retained segment with that sequence,
\* else None.
get_segment(dq, sequence) ==
    IF sequence = None \/ sequence = 0
    THEN [kind |-> "list", sequence |-> None, list |-> dq]
    ELSE IF \E i \in 1..Len(dq) : dq[i].sequence = sequence
         THEN [kind |-> "segment",
               sequence |-> dq[CHOOSE i \in 1..Len(dq) :
                                 /\ dq[i].sequence = sequence
                                 /\ \A j \in 1..(i - 1) :
                                       dq[j].sequence # sequence].sequence,
               list |-> <<>>]
         ELSE [kind |-> "none", sequence |-> None, list |-> <<>>]

\* Python truth value of what get_segment returned: a Segment is true, None is
\* false, a deque is true when it is not empty.
Truthy(r) ==
    CASE r.kind = "segment" -> TRUE
      [] r.kind = "none" -> FALSE
      [] r.kind = "list" -> Len(r.list) > 0

\* HlsSegmentView.handle: 404 when `not segment`; otherwise the body is
\* get_m4s(segment.segment, ...), which raises AttributeError on a deque (500).
HlsSegmentView_response(dq, sequence) ==
    LET segment == get_segment(dq, sequence)
    IN  IF ~Truthy(segment)
        THEN [call |-> "segment", status |-> "404", sequence |-> None]
        ELSE IF segment.kind = "segment"
             THEN [call |-> "segment", status |-> "200",
                   sequence |-> segment.sequence]
             ELSE [call |-> "segment", status |-> "500", sequence |-> None]

\* round(): Python rounds halves to the even neighbour.
round(d) ==
    LET q == d \div DurUnit
        r == d % DurUnit
    IN  IF 2 * r < DurUnit THEN q
        ELSE IF 2 * r > DurUnit THEN q + 1
        ELSE IF q % 2 = 0 THEN q ELSE q + 1

\* HlsStreamOutput.target_duration: round(max(durations)) or 1, and 1 for an
\* empty buffer.
target_duration_nofloor(dq) ==
    IF Len(dq) = 0
    THEN 1
    ELSE round(MaxOf({dq[i].duration : i \in 1..Len(dq)}))

target_duration(dq) ==
    IF Len(dq) = 0
    THEN 1
    ELSE LET m == round(MaxOf({dq[i].duration : i \in 1..Len(dq)}))
         IN  IF m = 0 THEN 1 ELSE m

\* A line of a manifest: its tag and the number it carries (0 when none).
Line(tag, value) == [tag |-> tag, value |-> value]

\* HlsPlaylistView.render_preamble
render_preamble(dq) ==
    << Line("EXT-X-VERSION", 7),
       Line("EXT-X-TARGETDURATION", target_duration(dq)),
       Line("EXT-X-MAP:URI=init.mp4", 0) >>

\* track.segments[-NUM_PLAYLIST_SEGMENTS:], as positions in the deque.
WindowStart_all(dq) == 1

WindowStart(dq) ==
    IF Len(dq) > NUM_PLAYLIST_SEGMENTS
    THEN Len(dq) - NUM_PLAYLIST_SEGMENTS + 1
    ELSE 1

\* "{:.04f}".format(float(duration)): the duration in 1/10000 s.
Extinf(duration) == (duration * 10000) \div DurUnit

\* The Segment object behind a get_segment result of kind "segment".
SegmentOf(dq, r) ==
    CHOOSE x \in {dq[i] : i \in 1..Len(dq)} : x.sequence = r.sequence

\* The two lines render_playlist adds for the segment get_segment returned.
SegmentLines(segment) ==
    << Line("EXTINF", Extinf(segment.duration)),
       Line("./segment/.m4s", segment.sequence) >>

\* The loop of render_playlist over the window, from position i on.
RECURSIVE PlaylistLines(_, _)
PlaylistLines(dq, i) ==
    IF i > Len(dq)
    THEN <<>>
    ELSE SegmentLines(SegmentOf(dq, get_segment(dq, dq[i].sequence)))
         \o PlaylistLines(dq, i + 1)

\* HlsPlaylistView.render_playlist: [] for an empty window; a sequence number
\* for which get_segment returns the deque has no .duration (AttributeError).
render_playlist(dq) ==
    LET first == WindowStart(dq)
    IN  IF Len(dq) = 0
        THEN [ok |-> TRUE, lines |-> <<>>]
        ELSE IF \E i \in first..Len(dq) :
                   get_segment(dq, dq[i].sequence).kind # "segment"
             THEN [ok |-> FALSE, lines |-> <<>>]
             ELSE [ok |-> TRUE,
                   lines |-> <<Line("EXT-X-MEDIA-SEQUENCE", dq[first].sequence)>>
                             \o PlaylistLines(dq, first)]

\* HlsPlaylistView.render
HlsPlaylistView_render(dq) ==
    LET playlist == render_playlist(dq)
    IN  IF playlist.ok
        THEN [ok |-> TRUE,
              lines |-> <<Line("EXTM3U", 0)>> \o render_preamble(dq)
                        \o playlist.lines]
        ELSE playlist

\* round(size * 8 / duration * 1.2), duration in DurUnit-ths of a second.
Bandwidth_nomargin(size, duration) ==
    LET n == size * 8 * DurUnit
        q == n \div duration
        r == n % duration
    IN  IF 2 * r < duration THEN q
        ELSE IF 2 * r > duration THEN q + 1
        ELSE IF q % 2 = 0 THEN q ELSE q + 1

Bandwidth(size, duration) ==
    LET n == size * 8 * 12 * DurUnit
        m == duration * 10
        q == n \div m
        r == n % m
    IN  IF 2 * r < m THEN q
        ELSE IF 2 * r > m THEN q + 1
        ELSE IF q % 2 = 0 THEN q ELSE q + 1

\* HlsMasterPlaylistView.render: track.segments[-1] raises IndexError on an
\* empty buffer, and a deque returned by get_segment has no .segment.
HlsMasterPlaylistView_render(dq) ==
    IF Len(dq) = 0
    THEN [ok |-> FALSE, lines |-> <<>>]
    ELSE LET segment == get_segment(dq, segments(dq)[Len(dq)])
         IN  IF segment.kind # "segment"
             THEN [ok |-> FALSE, lines |-> <<>>]
             ELSE LET s == SegmentOf(dq, segment)
                  IN  [ok |-> TRUE,
                       lines |-> << Line("EXTM3U", 0),
                                    Line("EXT-X-STREAM-INF:BANDWIDTH",
                                         Bandwidth(s.size, s.duration)),
                                    Line("playlist.m3u8", 0) >>]

\* asyncio.Event.set(): the flag after the call.
EventSet_noop(flag) == flag

EventSet(flag) == TRUE

\* asyncio.Event.clear(): the flag after the call.
EventClear_noop(flag) == flag

EventClear(flag) == FALSE

\* asyncio.Event.set() resolves the future of every task waiting on the event,
\* unless the flag is already set (then nobody can be waiting).
WakeAll_first(flag, p) ==
    IF flag \/ \A c \in Consumers : p[c] # "waiting"
    THEN p
    ELSE LET w == CHOOSE c \in Consumers : p[c] = "waiting"
         IN  [p EXCEPT ![w] = "woken"]

WakeAll(flag, p) ==
    IF flag
    THEN p
    ELSE [c \in Consumers |-> IF p[c] = "waiting" THEN "woken" ELSE p[c]]

\* recv's test before the wait.
recv_must_wait_strict(cursor, dq) ==
    cursor = None \/ cursor < last_segment(dq)

recv_must_wait(cursor, dq) == cursor = None \/ cursor <= last_segment(dq)

\* recv after the wait: (returned value, new cursor).
recv_tail_keepcursor(cursor, dq) ==
    IF Len(dq) = 0
    THEN [ret |-> [call |-> "recv", status |-> "none", sequence |-> None],
          cursor |-> cursor]
    ELSE [ret |-> [call |-> "recv", status |-> "segment",
                   sequence |-> NewestSegment(dq).sequence],
          cursor |-> cursor]

recv_tail(cursor, dq) ==
    IF Len(dq) = 0
    THEN [ret |-> [call |-> "recv", status |-> "none", sequence |-> None],
          cursor |-> cursor]
    ELSE LET segment == NewestSegment(get_segment(dq, None).list)
         IN  [ret |-> [call |-> "recv", status |-> "segment",
                       sequence |-> segment.sequence],
              cursor |-> segment.sequence]

\* Response of a manifest view that renders: the body is render(track), a
\* failure inside render is a 500.
ManifestResponse(view, dq) ==
    LET r == IF view = "master"
             THEN HlsMasterPlaylistView_render(dq)
             ELSE HlsPlaylistView_render(dq)
    IN  [call |-> view, status |-> IF r.ok THEN "200" ELSE "500",
         sequence |-> None]

\* HlsMasterPlaylistView.handle / HlsPlaylistView.handle once the recv they
\* awaited has got past its wait: 404 when recv returned None, else render.
handle_after_recv_nocheck(view, cursor, dq) ==
    [ret |-> ManifestResponse(view, dq), cursor |-> recv_tail(cursor, dq).cursor]

handle_after_recv(view, cursor, dq) ==
    LET r == recv_tail(cursor, dq)
    IN  [ret |-> IF r.ret.status = "none"
                 THEN [call |-> view, status |-> "404", sequence |-> None]
                 ELSE ManifestResponse(view, dq),
         cursor |-> r.cursor]

\* ------------------------------------------------------------------ state

NoResult == [call |-> "recv", status |-> "pending", sequence |-> None]

Construct ==
    /\ _segments = <<>>
    /\ _cursor = None
    /\ _event = FALSE
    /\ pc = [c \in Consumers |-> "idle"]
    /\ result = [c \in Consumers |-> NoResult]
    /\ history = <<>>
    /\ torn = FALSE
    /\ revived = FALSE
    /\ wokenBy = [c \in Consumers |-> NotWoken]
    /\ issued = [c \in Consumers |-> "new"]
    /\ during = [c \in Consumers |-> "none"]
    /\ lastRecv = [c \in Consumers |-> None]

Init == Construct /\ tracking = FALSE

\* ghost: consumer c's recv returns what recv_tail computed.
Handed(c, r) ==
    [lastRecv EXCEPT ![c] =
        IF tracking /\ r.ret.status = "segment"
        THEN r.ret.sequence ELSE lastRecv[c]]

\* ghost: the producer appends while these recv calls are in progress.
DuringAppend ==
    [c \in Consumers |->
        IF pc[c] \in {"waiting", "woken"} /\ during[c] = "none"
        THEN "appends" ELSE during[c]]

\* ghost: cleanup() runs while these recv calls are in progress.
DuringCleanup ==
    [c \in Consumers |->
        IF pc[c] \in {"waiting", "woken"} THEN "cleanup" ELSE during[c]]

\* The producer assigns strictly increasing sequence numbers (gaps allowed).
NextSequences ==
    {s \in 0..MaxSeq : Len(history) = 0 \/ s > history[Len(history)]}

\* HlsStreamOutput._async_put(segment): append, set, clear, in one callback.
_async_put(segment) ==
    /\ segment.sequence \in NextSequences
    /\ _segments' = DequeAppend(_segments, segment)
    /\ pc' = WakeAll(_event, pc)
    /\ _event' = EventClear(EventSet(_event))
    /\ wokenBy' = [c \in Consumers |->
                     IF pc[c] = "waiting" /\ pc'[c] = "woken"
                     THEN segment.sequence ELSE wokenBy[c]]
    /\ history' = Append(history, segment.sequence)
    /\ revived' = torn
    /\ during' = DuringAppend
    /\ UNCHANGED <<_cursor, result, torn, issued, lastRecv, tracking>>

\* HlsStreamOutput.cleanup(): set the event, replace the deque by an empty one.
cleanup_setclear ==
    /\ pc' = WakeAll(_event, pc)
    /\ _event' = EventClear(EventSet(_event))
    /\ _segments' = <<>>
    /\ wokenBy' = [c \in Consumers |->
                     IF pc[c] = "waiting" /\ pc'[c] = "woken"
                     THEN CleanupWake ELSE wokenBy[c]]
    /\ torn' = TRUE
    /\ revived' = FALSE
    /\ during' = DuringCleanup
    /\ UNCHANGED <<_cursor, result, history, issued, lastRecv, tracking>>

cleanup ==
    /\ pc' = WakeAll(_event, pc)
    /\ _event' = EventSet(_event)
    /\ _segments' = <<>>
    /\ wokenBy' = [c \in Consumers |->
                     IF pc[c] = "waiting" /\ pc'[c] = "woken"
                     THEN CleanupWake ELSE wokenBy[c]]
    /\ torn' = TRUE
    /\ revived' = FALSE
    /\ during' = DuringCleanup
    /\ UNCHANGED <<_cursor, result, history, issued, lastRecv, tracking>>

\* recv up to its await: suspends on the event when it has to wait and the
\* flag is clear; otherwise runs through to its return in the same step.
recv_call(c) ==
    /\ pc[c] \in {"idle", "done"}
    /\ issued' = [issued EXCEPT ![c] =
                    IF torn THEN "torn"
                    ELSE IF Len(history) = 0 THEN "new" ELSE "live"]
    /\ during' = [during EXCEPT ![c] = "none"]
    /\ wokenBy' = [wokenBy EXCEPT ![c] = NotWoken]
    /\ IF recv_must_wait(_cursor, _segments) /\ ~_event
       THEN /\ pc' = [pc EXCEPT ![c] = "waiting"]
            /\ result' = [result EXCEPT ![c] = NoResult]
            /\ UNCHANGED <<_cursor, lastRecv>>
       ELSE /\ pc' = [pc EXCEPT ![c] = "done"]
            /\ result' = [result EXCEPT ![c] = recv_tail(_cursor, _segments).ret]
            /\ _cursor' = recv_tail(_cursor, _segments).cursor
            /\ lastRecv' = Handed(c, recv_tail(_cursor, _segments))
    /\ UNCHANGED <<_segments, _event, history, torn, revived, tracking>>

\* recv from the resolved wait to its return.
recv_resume_consume(c) ==
    /\ pc[c] = "woken"
    /\ result[c].call = "recv"
    /\ pc' = [pc EXCEPT ![c] = "done"]
    /\ result' = [result EXCEPT ![c] = recv_tail(_cursor, _segments).ret]
    /\ _cursor' = recv_tail(_cursor, _segments).cursor
    /\ lastRecv' = Handed(c, recv_tail(_cursor, _segments))
    /\ _segments' = SubSeq(_segments, 1, Len(_segments) - 1)
    /\ UNCHANGED <<_event, history, torn, revived,
                   wokenBy, issued, during, tracking>>

recv_resume(c) ==
    /\ pc[c] = "woken"
    /\ result[c].call = "recv"
    /\ pc' = [pc EXCEPT ![c] = "done"]
    /\ result' = [result EXCEPT ![c] = recv_tail(_cursor, _segments).ret]
    /\ _cursor' = recv_tail(_cursor, _segments).cursor
    /\ lastRecv' = Handed(c, recv_tail(_cursor, _segments))
    /\ UNCHANGED <<_segments, _event, history, torn, revived,
                   wokenBy, issued, during, tracking>>

\* HlsSegmentView.handle(request, stream, sequence): no await inside.
HlsSegmentView_handle(c, sequence) ==
    /\ pc[c] \in {"idle", "done"}
    /\ pc' = [pc EXCEPT ![c] = "done"]
    /\ result' = [result EXCEPT ![c] =
                    HlsSegmentView_response(_segments, sequence)]
    /\ wokenBy' = [wokenBy EXCEPT ![c] = NotWoken]
    /\ issued' = [issued EXCEPT ![c] = "new"]
    /\ during' = [during EXCEPT ![c] = "none"]
    /\ UNCHANGED <<_segments, _cursor, _event, history, torn, revived,
                   lastRecv, tracking>>

\* HlsMasterPlaylistView.handle and HlsPlaylistView.handle (the same code):
\* render at once when track.segments is not empty; otherwise await recv,
\* which suspends on the event or runs through, as in recv_call.
manifest_handle(c, view) ==
    /\ pc[c] \in {"idle", "done"}
    /\ issued' = [issued EXCEPT ![c] = "new"]
    /\ during' = [during EXCEPT ![c] = "none"]
    /\ wokenBy' = [wokenBy EXCEPT ![c] = NotWoken]
    /\ IF Len(segments(_segments)) > 0
       THEN /\ pc' = [pc EXCEPT ![c] = "done"]
            /\ result' = [result EXCEPT ![c] = ManifestResponse(view, _segments)]
            /\ UNCHANGED _cursor
       ELSE IF recv_must_wait(_cursor, _segments) /\ ~_event
       THEN /\ pc' = [pc EXCEPT ![c] = "waiting"]
            /\ result' = [result EXCEPT ![c] =
                            [call |-> view, status |-> "pending",
                             sequence |-> None]]
            /\ UNCHANGED _cursor
       ELSE /\ pc' = [pc EXCEPT ![c] = "done"]
            /\ result' = [result EXCEPT ![c] =
                            handle_after_recv(view, _cursor, _segments).ret]
            /\ _cursor' = handle_after_recv(view, _cursor, _segments).cursor
    /\ UNCHANGED <<_segments, _event, history, torn, revived, lastRecv,
                   tracking>>

HlsMasterPlaylistView_handle(c) == manifest_handle(c, "master")

HlsPlaylistView_handle(c) == manifest_handle(c, "playlist")

\* A manifest handler from the resolved wait of its recv to its response.
manifest_resume(c) ==
    /\ pc[c] = "woken"
    /\ result[c].call \in {"master", "playlist"}
    /\ pc' = [pc EXCEPT ![c] = "done"]
    /\ result' = [result EXCEPT ![c] =
                    handle_after_recv(result[c].call, _cursor, _segments).ret]
    /\ _cursor' = handle_after_recv(result[c].call, _cursor, _segments).cursor
    /\ during' = [during EXCEPT ![c] = "none"]
    /\ wokenBy' = [wokenBy EXCEPT ![c] = NotWoken]
    /\ UNCHANGED <<_segments, _event, history, torn, revived, issued,
                   lastRecv, tracking>>

Put == \E segment \in Segment : _async_put(segment)

Recv == \E c \in Consumers : recv_call(c)

Resume == \E c \in Consumers : recv_resume(c)

SegmentRequest ==
    \E c \in Consumers : \E sequence \in 0..(MaxSeq + 1) :
        HlsSegmentView_handle(c, sequence)

MasterRequest == \E c \in Consumers : HlsMasterPlaylistView_handle(c)

PlaylistRequest == \E c \in Consumers : HlsPlaylistView_handle(c)

ManifestResume == \E c \in Consumers : manifest_resume(c)

\* The buffer, its producer, the callers of recv and the segment view.
Next == Put \/ cleanup \/ Recv \/ Resume \/ SegmentRequest

Spec == Init /\ [][Next]_vars

\* The event loop runs every task whose wait has been resolved.
FairSpec == Spec /\ \A c \in Consumers : WF_vars(recv_resume(c))

\* The buffer, its producer, the callers of recv and the two manifest views,
\* which read the buffer and await recv.
ViewNext ==
    Put \/ cleanup \/ Recv \/ Resume
        \/ MasterRequest \/ PlaylistRequest \/ ManifestResume

ViewSpec == Init /\ [][ViewNext]_vars

\* Spec with the ghost lastRecv recorded.
TrackInit == Construct /\ tracking = TRUE
TrackSpec == TrackInit /\ [][Next]_vars

\* ----------------------------------------------------------------- claims

\* A recv call of consumer c returns in this step.
RecvReturns(c) == recv_resume(c) \/ (recv_call(c) /\ pc'[c] = "done")

Waiting == {c \in Consumers : pc[c] = "waiting"}

\* C1: no missed wakeup.  An append has stored its segment when it signals,
\* it resolves the wait of every recv suspended at that moment (none is left
\* waiting for a later append), and under fair scheduling of the event loop
\* every recv whose wait was resolved returns.
C1_NoMissedWakeup ==
    /\ [][Len(history') > Len(history) =>
            /\ Len(_segments') > 0
            /\ _segments'[Len(_segments')].sequence = history'[Len(history')]
            /\ \A c \in Waiting :
                 /\ pc'[c] = "woken"
                 /\ wokenBy'[c] = history'[Len(history')]
            /\ \A c \in Consumers : pc'[c] # "waiting"]_vars
    /\ \A c \in Consumers : (pc[c] = "woken") ~> (pc[c] = "done")

\* C1 witness: two recv calls were suspended at the same append, were both
\* woken by it and have both returned.
C1_Witness ==
    /\ \A c \in Consumers :
         /\ pc[c] = "done"
         /\ result[c].call = "recv"
         /\ wokenBy[c] >= 0
    /\ wokenBy["c1"] = wokenBy["c2"]

C3_BoundedWindow ==
    ~torn =>
        LET n == Len(history)
            k == Min(n, MAX_SEGMENTS)
        IN  /\ Len(segments(_segments)) <= MAX_SEGMENTS
            /\ Len(segments(_segments)) = k
            /\ segments(_segments) = SubSeq(history, n - k + 1, n)

\* C3 witness: more appends than the capacity, so the oldest was evicted.
C3_Witness == ~torn /\ Len(history) > MAX_SEGMENTS

\* What a caller of get_segment tells apart: a segment, or nothing.
NotFound(r) == ~Truthy(r)

\* C4: for every sequence number s >= 0, get_segment(s) returns the retained
\* segment with that sequence when s is in the segments property and
\* not-found otherwise, and HlsSegmentView answers 404 exactly in the latter
\* case.
C4_GetExactSegment ==
    \A s \in 0..(MaxSeq + 1) :
        LET r == get_segment(_segments, s)
        IN  /\ s \in SeqSet(_segments) => (r.kind = "segment" /\ r.sequence = s)
            /\ s \notin SeqSet(_segments) => NotFound(r)
            /\ (HlsSegmentView_response(_segments, s).status = "404")
                 <=> (s \notin SeqSet(_segments))

\* C5: a recv called on the new, empty buffer, followed by exactly one append
\* and no cleanup, returns the appended segment and leaves the cursor at its
\* sequence number.
C5_FirstRecv ==
    \A c \in Consumers :
        ( /\ pc[c] = "done" /\ result[c].call = "recv"
          /\ issued[c] = "new"
          /\ ~torn /\ Len(history) = 1 )
        => /\ result[c].status = "segment"
           /\ result[c].sequence = history[1]
           /\ _cursor = history[1]

\* C5 witness: such a recv has returned.
C5_Witness ==
    \E c \in Consumers :
        /\ pc[c] = "done" /\ result[c].call = "recv"
        /\ issued[c] = "new"
        /\ ~torn /\ Len(history) = 1

\* Position in the history of the append of sequence number s.
AppendIndex(s) == CHOOSE i \in 1..Len(history) : history[i] = s

\* Appends that ran after the append of sequence number s.
AppendsSince(s) == Len(history) - AppendIndex(s)

\* C6 as claimed: a recv woken by the append of s sees, when it resumes, s
\* still retained and returns a segment with sequence >= s, whatever appends
\* and cleanups ran between the wakeup and the resumption.
C6_WakerStillRetained ==
    [][\A c \in Consumers :
         (recv_resume(c) /\ wokenBy[c] >= 0)
         => /\ wokenBy[c] \in SeqSet(_segments)
            /\ result'[c].status = "segment"
            /\ result'[c].sequence >= wokenBy[c]]_vars

\* C6 amended: a recv woken by the append of s, with no cleanup between the
\* wakeup and the resumption, returns a segment with sequence >= s; and s
\* itself is still retained when fewer than MAX_SEGMENTS further appends ran
\* in between.
C6_WakerSeenUnlessTornOrEvicted ==
    [][\A c \in Consumers :
         (recv_resume(c) /\ wokenBy[c] >= 0 /\ during[c] = "appends")
         => /\ result'[c].status = "segment"
            /\ result'[c].sequence >= wokenBy[c]
            /\ AppendsSince(wokenBy[c]) < MAX_SEGMENTS
                 => wokenBy[c] \in SeqSet(_segments)]_vars

\* C6 witness: a recv woken by an append resumed after a further append, with
\* no cleanup in between, and returned the later segment.
C6_Witness ==
    \E c \in Consumers :
        /\ pc[c] = "done" /\ result[c].call = "recv"
        /\ wokenBy[c] >= 0 /\ during[c] = "appends"
        /\ result[c].status = "segment"
        /\ result[c].sequence > wokenBy[c]

\* C7: whenever recv returns a segment, it is the retained segment with the
\* highest sequence number at that moment, and the cursor then equals its
\* sequence number.
C7_RecvReturnsNewest ==
    [][\A c \in Consumers :
         (RecvReturns(c) /\ result'[c].status = "segment")
         => /\ Len(_segments) > 0
            /\ result'[c].sequence = MaxOf(SeqSet(_segments))
            /\ _cursor' = result'[c].sequence]_vars

\* C7 witness: recv returned while the buffer was full and the cursor had
\* already been advanced before, after more than one append during the wait.
C7_Witness ==
    \E c \in Consumers :
        /\ pc[c] = "done" /\ result[c].call = "recv"
        /\ result[c].status = "segment"
        /\ issued[c] = "live"
        /\ wokenBy[c] >= 0 /\ AppendsSince(wokenBy[c]) >= 2
        /\ Len(_segments) = MAX_SEGMENTS
        /\ _cursor = result[c].sequence
        /\ _cursor = history[Len(history)]

\* C8: wait-first.  Before any cleanup the event is clear and the cursor is
\* None or <= the highest retained sequence, so every recv suspends; and a
\* recv called before any cleanup has returned only after an append or a
\* cleanup that ran after the call.
C8_WaitFirst ==
    /\ ~torn => (recv_must_wait(_cursor, _segments) /\ ~_event)
    /\ \A c \in Consumers :
         (pc[c] = "done" /\ result[c].call = "recv" /\ issued[c] # "torn")
         => during[c] # "none"

\* C8 witness: a recv called on the live buffer returned a segment after an
\* append, and a recv called after it, with the cursor at the newest retained
\* sequence, is suspended and has not returned.
C8_Witness ==
    /\ ~torn
    /\ \E c, d \in Consumers :
         /\ pc[c] = "done" /\ result[c].call = "recv"
         /\ issued[c] = "live" /\ result[c].status = "segment"
         /\ pc[d] = "waiting" /\ issued[d] = "live" /\ during[d] = "none"
         /\ _cursor # None

\* C9: teardown is terminal.  Once cleanup has run, the segments property
\* stays empty, no recv blocks, and every recv called afterwards returns None.
C9_TeardownTerminal ==
    torn =>
        /\ segments(_segments) = <<>>
        /\ \A c \in Consumers :
             /\ pc[c] # "waiting"
             /\ (pc[c] = "done" /\ result[c].call = "recv"
                 /\ issued[c] = "torn")
                => result[c].status = "none"

\* Ceiling of a duration, in whole seconds.
Ceiling(d) == (d + DurUnit - 1) \div DurUnit

\* C10: target_duration is the ceiling of the largest retained duration, and
\* 1 when the buffer is empty.
C10_TargetDurationCeiling ==
    target_duration(_segments) =
        IF Len(_segments) = 0
        THEN 1
        ELSE Ceiling(MaxOf({_segments[i].duration : i \in 1..Len(_segments)}))

TargetDurationLines(lines) ==
    {i \in 1..Len(lines) : lines[i].tag = "EXT-X-TARGETDURATION"}

\* C11: in every reachable buffer state target_duration is an integer >= 1,
\* and the one TARGETDURATION line of the media manifest's preamble carries
\* that value.
C11_TargetDurationFloor ==
    LET lines == render_preamble(_segments)
    IN  /\ target_duration(_segments) \in Nat
        /\ target_duration(_segments) >= 1
        /\ Cardinality(TargetDurationLines(lines)) = 1
        /\ \A i \in TargetDurationLines(lines) :
             /\ lines[i].value = target_duration(_segments)
             /\ lines[i].value >= 1

\* C11 witness: a full buffer after a cleanup and new appends, every retained
\* segment shorter than half a second.
C11_Witness ==
    /\ revived
    /\ Len(_segments) = MAX_SEGMENTS
    /\ \A i \in 1..Len(_segments) : 2 * _segments[i].duration < DurUnit

\* consumer c's recv reads the cursor in this step (recv tests
\* self._cursor is None and compares it with the newest sequence).
RecvConsults(c) == recv_call(c) \/ recv_resume(c)

\* C12: the cursor is per consumer.  The cursor a consumer's recv consults is
\* None until that consumer's own recv returned a segment, and then the
\* sequence its own recv returned last; a recv that returns to another
\* consumer leaves it unchanged.
C12_CursorPerConsumer ==
    [][\A c \in Consumers :
         /\ RecvConsults(c) => _cursor = lastRecv[c]
         /\ (\E d \in Consumers \ {c} : RecvReturns(d))
              => _cursor' = _cursor]_vars

\* C13: for every non-empty buffer the media playlist lists exactly the last
\* min(NUM_PLAYLIST_SEGMENTS, len) retained segments, oldest first: a
\* MEDIA-SEQUENCE line carrying the first sequence of that window, then for
\* each segment of the window its EXTINF duration line followed by its
\* ./segment/<sequence>.m4s reference.
C13_MediaWindow ==
    Len(_segments) > 0 =>
        LET n == Len(_segments)
            k == Min(NUM_PLAYLIST_SEGMENTS, n)
            window == SubSeq(_segments, n - k + 1, n)
            playlist == render_playlist(_segments)
        IN  /\ playlist.ok
            /\ Len(playlist.lines) = 1 + 2 * k
            /\ playlist.lines[1] =
                 Line("EXT-X-MEDIA-SEQUENCE", window[1].sequence)
            /\ \A j \in 1..k :
                 /\ playlist.lines[2 * j] =
                      Line("EXTINF", Extinf(window[j].duration))
                 /\ playlist.lines[2 * j + 1] =
                      Line("./segment/.m4s", window[j].sequence)

Views == {"master", "playlist"}

\* Consumer c requests a manifest in this step (a step that changes nothing
\* for c is a stuttering step).
ManifestEnters(c) ==
    /\ pc[c] \in {"idle", "done"}
    /\ result'[c].call \in Views
    /\ pc'[c] # pc[c] \/ result'[c] # result[c]
    /\ manifest_handle(c, result'[c].call)

\* The manifest handler of consumer c answers in this step.
ManifestReturns(c) ==
    \/ pc[c] = "woken" /\ manifest_resume(c)
    \/ pc'[c] = "done" /\ ManifestEnters(c)

\* The handler's answer came out of render (a body, or a failure inside it).
Rendered(r) == r.call \in Views /\ r.status \in {"200", "500"}

\* C14: the manifest handlers ensure readiness before rendering.  A handler
\* that finds a segment on entry renders at once; it awaits recv only when
\* the buffer is empty on entry; it renders only in a state where the buffer
\* holds a segment, and it answers 404 exactly when the buffer was empty on
\* entry and the recv it awaited returned None.
C14_ReadyBeforeRender ==
    [][\A c \in Consumers :
         /\ (Len(_segments) > 0 /\ ManifestEnters(c))
              => pc'[c] = "done" /\ Rendered(result'[c])
         /\ (pc'[c] = "waiting" /\ ManifestEnters(c))
              => Len(_segments) = 0
         /\ ManifestReturns(c) =>
              /\ Rendered(result'[c]) => Len(_segments') > 0
              /\ result'[c].status = "404" <=>
                   /\ pc[c] = "woken" \/ Len(_segments) = 0
                   /\ recv_tail(_cursor, _segments).ret.status = "none"
              /\ Rendered(result'[c]) \/ result'[c].status = "404"]_vars

\* C14 witness: after a teardown and a later append, one handler has answered
\* 404 and another has rendered the media playlist.
C14_Witness ==
    /\ torn /\ revived
    /\ \E c, d \in Consumers :
         /\ pc[c] = "done" /\ result[c].call = "master"
         /\ result[c].status = "404"
         /\ pc[d] = "done" /\ result[d].call = "playlist"
         /\ result[d].status = "200"

\* C15: for every non-empty buffer, the master playlist is rendered from the
\* newest retained segment, whatever its sequence number, and its BANDWIDTH
\* is round(payload length * 8 / duration * 1.2) of that segment; a payload of
\* 750000 bytes lasting 6.0 s gives 1200000.
C15_MasterBandwidth ==
    /\ Bandwidth(750000, 6 * DurUnit) = 1200000
    /\ Len(_segments) > 0 =>
         LET newest == _segments[Len(_segments)]
             master == HlsMasterPlaylistView_render(_segments)
         IN  /\ master.ok
             /\ \E i \in 1..Len(master.lines) :
                  master.lines[i] =
                      Line("EXT-X-STREAM-INF:BANDWIDTH",
                           Bandwidth(newest.size, newest.duration))

\* The retained segments are in strictly ascending order of sequence.
Sorted(dq) ==
    \A i \in 1..(Len(dq) - 1) : dq[i].sequence < dq[i + 1].sequence

\* C16: with a producer of strictly increasing sequence numbers, the retained
\* segments are always sorted strictly ascending by sequence, so the last one
\* is the maximum; an append removes nothing while the buffer is below
\* capacity, and at capacity removes exactly the head, which is the segment
\* with the smallest sequence.
C16_SortedHeadEviction ==
    [][/\ Sorted(_segments')
       /\ Len(_segments') > 0 =>
            NewestSegment(_segments').sequence = MaxOf(SeqSet(_segments'))
       /\ Len(history') > Len(history) =>
            LET segment == NewestSegment(_segments')
            IN  /\ segment.sequence = history'[Len(history')]
                /\ IF Len(_segments) < MAX_SEGMENTS
                   THEN _segments' = Append(_segments, segment)
                   ELSE /\ _segments' = Append(Tail(_segments), segment)
                        /\ \A s \in SeqSet(_segments) :
                             Head(_segments).sequence <= s]_vars

\* C16 witness: a full buffer whose head is no longer the first segment ever
\* appended: an append at capacity has evicted.
C16_Witness ==
    /\ Len(_segments) = MAX_SEGMENTS
    /\ Head(_segments).sequence > history[1]
    /\ Len(history) = MAX_SEGMENTS + 1

\* Consumer c calls a manifest view or recv, or its suspended call resumes,
\* in this step (_async_put and cleanup only move a consumer from waiting to woken).
Acts(c) ==
    \/ pc'[c] # pc[c] /\ pc'[c] # "woken"
    \/ result'[c] # result[c]

\* Consumer c gets an answer in this step from a manifest handler that found
\* a segment on entry and so rendered without recv.
ReaderReturns(c) ==
    /\ Acts(c)
    /\ pc[c] \in {"idle", "done"}
    /\ pc'[c] = "done"
    /\ result'[c].call \in Views
    /\ Len(_segments) > 0

\* The recv awaited by a manifest handler of consumer c returns in this step.
ManifestRecvReturns(c) ==
    ManifestReturns(c) /\ (pc[c] = "woken" \/ Len(_segments) = 0)

\* C17: readers never mutate shared state.  The retained segments and the
\* event change only in _async_put and cleanup; the cursor changes only when
\* a recv returns; a recv, called directly or awaited by a manifest handler,
\* changes neither the segments nor the event; a manifest handler that renders
\* without recv (through segments, get_segment, target_duration and the two
\* render methods) changes none of the three.
C17_ReadersDoNotMutate ==
    [][/\ (_segments' # _segments \/ _event' # _event) => (Put \/ cleanup)
       /\ _cursor' # _cursor =>
            \E c \in Consumers : RecvReturns(c) \/ ManifestRecvReturns(c)
       /\ \A c \in Consumers :
            /\ Acts(c) => UNCHANGED <<_segments, _event>>
            /\ ReaderReturns(c) => UNCHANGED <<_segments, _event, _cursor>>]_vars

\* C17 witness: on a full buffer one consumer's recv has returned a segment
\* after a wait and a manifest handler has rendered the master playlist.
C17_Witness ==
    /\ Len(_segments) = MAX_SEGMENTS
    /\ \E c, d \in Consumers :
         /\ pc[c] = "done" /\ result[c].call = "recv"
         /\ result[c].status = "segment" /\ wokenBy[c] >= 0
         /\ _cursor = result[c].sequence
         /\ pc[d] = "done" /\ result[d].call = "master"
         /\ result[d].status = "200"

\* C18: with a producer of strictly increasing sequence numbers and no
\* teardown, every segment a consumer's recv returns has a sequence strictly
\* greater than the segment its previous recv returned (the same segment is
\* never handed to the same consumer twice), and the cursor never decreases,
\* whatever appends and recv calls of other consumers interleave.
C18_RecvStrictlyIncreasing ==
    [][~torn' =>
         /\ _cursor' >= _cursor
         /\ \A c \in Consumers :
              (pc'[c] = "done" /\ result'[c].status = "segment"
                 /\ RecvReturns(c))
                 => /\ result'[c].sequence > lastRecv[c]
                    /\ lastRecv'[c] = result'[c].sequence]_vars

\* C18 witness: without teardown both consumers have received segments, one
\* of them a second, later segment while the other one's recv calls ran in
\* between.
C18_Witness ==
    /\ ~torn
    /\ \E c, d \in Consumers :
         /\ c # d
         /\ pc[c] = "done" /\ result[c].call = "recv"
         /\ result[c].status = "segment"
         /\ lastRecv[c] = result[c].sequence
         /\ lastRecv[d] >= 0 /\ lastRecv[d] < lastRecv[c]
         /\ Len(history) > MAX_SEGMENTS

\* Consumer c calls recv in this step.
RecvCalls(c) ==
    /\ pc[c] \in {"idle", "done"}
    /\ result'[c].call = "recv"
    /\ recv_call(c)

\* C19: signal level.  _async_put sets and clears the event in one step, so
\* the flag is clear in every state before the first cleanup and a recv that
\* has to wait then suspends; cleanup leaves the flag set, so from a cleanup
\* until the next append the flag is set and a recv's wait returns at once;
\* the next append clears the flag again.
C19_SignalLevel ==
    [][/\ ~torn => ~_event
       /\ ~torn' => ~_event'
       /\ _event' <=> (torn' /\ ~revived')
       /\ Len(history') > Len(history) => ~_event'
       /\ (torn' /\ ~torn) => _event'
       /\ \A c \in Consumers :
            RecvCalls(c) =>
               /\ (~torn /\ recv_must_wait(_cursor, _segments))
                     => pc'[c] = "waiting"
               /\ _event => pc'[c] = "done"]_vars

\* C19 witness: after a cleanup one recv found the flag set and returned None
\* without suspending; a later append has cleared the flag, and a recv called
\* after it is suspended.
C19_Witness ==
    /\ torn /\ revived /\ ~_event
    /\ \E c, d \in Consumers :
         /\ pc[c] = "done" /\ result[c].call = "recv"
         /\ result[c].status = "none" /\ issued[c] = "torn"
         /\ pc[d] = "waiting" /\ issued[d] = "torn"

====
